---- MODULE Spec2Model ----
(***************************************************************************)
(* The development server of userscript-x (packages/dev/src/dev-server.ts) *)
(* and the builder it drives (packages/dev/src/builder.ts).                *)
(*                                                                         *)
(* Node runs the server on one thread: a callback runs to its next await   *)
(* without interleaving.  Each action below is one such run: a watcher     *)
(* callback, the resumption of rebuild() after `await loadConfig`, the     *)
(* resumption after `await build`, a WebSocket callback, a signal.         *)
(***************************************************************************)
EXTENDS Integers, Sequences, FiniteSets, TLC

\* ------------------------------------------------------------------ bounds
\* Watcher callbacks delivered in one run of the server.
MaxEvents == 3

\* ----------------------------------------------------------- configuration
\* A configuration file's content, as far as the server reads it:
\* build.outDir and build.outFile ("" when the field is left out), and
\* whether loadConfig accepts the file (it exists and exports metadata).
Configs ==
    { [valid |-> TRUE, outDir |-> "",     outFile |-> ""],
      [valid |-> TRUE, outDir |-> "dist", outFile |-> "app.user.js"],
      [valid |-> TRUE, outDir |-> "out",  outFile |-> ""] }

InvalidConfig == [valid |-> FALSE, outDir |-> "", outFile |-> ""]

ConfigFiles == Configs \cup {InvalidConfig}

\* getDefaultOutputFile() for a project whose package.json gives no name.
DefaultOutputFile == "bundle.user.js"

\* config.build?.outDir || "dist"
outDirOf(cfg) == IF cfg.outDir = "" THEN "dist" ELSE cfg.outDir

\* config.build?.outFile || getDefaultOutputFile()
outFileOf(cfg) == IF cfg.outFile = "" THEN DefaultOutputFile ELSE cfg.outFile

\* resolve(process.cwd(), outDir, outFile)
outputPath(cfg) == <<outDirOf(cfg), outFileOf(cfg)>>

Paths == { outputPath(c) : c \in Configs }

\* loadConfig: throws when the file is missing or has no metadata, and
\* otherwise returns what the file exports now.
loadConfig(file) ==
    IF file.valid THEN [ok |-> TRUE, config |-> file]
    ELSE [ok |-> FALSE, config |-> InvalidConfig]

\* -------------------------------------------------------------- the disk
\* The content of an artifact is the number of the build that wrote it:
\* 0 for the startup build, n for the n-th call of rebuild() that got past
\* its guard.  Absent: no file at the path.
Absent == -1

\* tsdown's `clean: true` empties outDir before it writes.
cleanDir(d, dir) == [p \in Paths |-> IF p[1] = dir THEN Absent ELSE d[p]]

\* build(): clean outDir, bundle to outDir/main.iife.js, rename to outFile.
build(d, cfg, n) == [cleanDir(d, outDirOf(cfg)) EXCEPT ![outputPath(cfg)] = n]

\* ------------------------------------------------------------- the state
ClientIds == {"c1", "c2", "c3"}

\* WebSocket.readyState
OPEN    == 1
CLOSING == 2
CLOSED  == 3

None == [none |-> TRUE]

VARIABLES
    pc,           \* where startDevServer is: loadConfig, initialBuild, running, exited
    exitCode,     \* the status given to process.exit, -1 before it is called
    watcher,      \* "none" | "open" | "closed"
    wss,          \* "none" | "open" | "closed"
    server,       \* "none" | "open" | "closed"
    configFile,   \* the configuration file on disk, now
    config,       \* the configuration startDevServer loaded (fixes scriptPath)
    disk,         \* Paths -> content
    rebuilding,   \* let rebuilding
    needsRebuild, \* let needsRebuild
    started,      \* calls of rebuild() that got past the guard
    inflight,     \* the calls of rebuild() suspended at an await
    clients,      \* const clients = new Set<WebSocket>()
    readyState,   \* ClientIds -> readyState of that socket
    evtAt,        \* per watcher callback: the build in flight when it came, 0 if none
    done,         \* the rebuild attempt the last step finished, or None
    wire          \* the broadcast the last step made, or None

coordVars == <<rebuilding, needsRebuild, started, inflight>>
chanVars  == <<clients, readyState>>
procVars  == <<pc, exitCode, watcher, wss, server>>
envVars   == <<configFile, config, disk>>
obsVars   == <<evtAt, done, wire>>
vars == <<procVars, envVars, coordVars, chanVars, obsVars>>

\* const scriptPath = resolve(process.cwd(), outDir, outFile), set once.
scriptPath == outputPath(config)

\* The payload construction of notifyClients on artifact texts, and the
\* client runtime the builder injects (getHotReloadClient), each have a
\* specification of their own further down; their variables stand still in
\* the server's steps.
VARIABLES
    artifact,     \* the text of the file at scriptPath
    code1,        \* the reload code made from it, or Unset
    code2,        \* the reload code made from that reload code, or Unset
    sentFrom,     \* the artifact text the latest broadcast read, or Unset
    prevFrom,     \* the artifact text the broadcast before it read, or Unset
    prevCode,     \* the reload code of the broadcast before it, or Unset
    made,         \* how the artifact was built: [meta, user, dev], or None
    seen          \* what became of the page "c1": see Watch

stripVars == <<artifact, code1, code2, sentFrom, prevFrom, prevCode, made>>

VARIABLES
    page,           \* "boot" | "alive" | "gone": the page the client runs in
    torn,           \* the beforeunload listener has run
    ws,             \* let ws: the socket last constructed, 0 while undefined
    reconnectTimer, \* let reconnectTimer: a timer id, 0 while undefined or null
    timers,         \* the timers set and neither fired nor cleared
    sock,           \* per socket: "none", "connecting", "open", "closing", "closed"
    connects,       \* calls of connect()
    timersMade,     \* calls of setTimeout
    cstep           \* what the last step of the client was

clientVars == <<page, torn, ws, reconnectTimer, timers, sock, connects,
                timersMade, cstep>>

VARIABLES
    cleanupFn,    \* window.__USX_CLEANUP__: "absent", "returns" or "throws"
    got,          \* the message the client handled last, or None
    calls,        \* what its handler called, in order
    escaped,      \* an exception left that handler
    threwBefore   \* the code of an earlier message threw when evaluated

msgVars == <<cleanupFn, got, calls, escaped, threwBefore>>

VARIABLES
    res,          \* the response the last step sent to an HTTP request, or None
    lastOut       \* the path the latest successful build wrote, or None

httpVars == <<res, lastOut>>

\* No request served, nothing built.
HttpIdle ==
    /\ res = None
    /\ lastOut = None

VARIABLES
    devServer     \* the ports of the development server started, or None

buildVars == <<devServer>>

\* No development server started.
BuildIdle == devServer = None

VARIABLES
    joined,       \* the members of clients in the order they were added
    threwAt       \* the socket whose send threw in the last step, or ""

sendVars == <<joined, threwAt>>

\* No socket added, no send made.
SendIdle ==
    /\ joined = <<>>
    /\ threwAt = ""

VARIABLES
    localStorage, \* the page's localStorage: key -> item, NoItem when absent
    written,      \* key -> the value storage.set was last given, or Nothing
    ret           \* what the last call of storage.get returned, or None

storeVars == <<localStorage, written, ret>>

\* The keys a userscript stores under.
Keys == {"count", "user"}

\* A key without item: localStorage.getItem gives null for it.
NoItem == [has |-> FALSE, text |-> ""]

\* No value set under the key, or the value deleted.
Nothing == [t |-> "nothing"]

\* An empty localStorage, nothing read.
StoreIdle ==
    /\ localStorage = [k \in Keys |-> NoItem]
    /\ written = [k \in Keys |-> Nothing]
    /\ ret = None

\* The page before any message.
MsgIdle ==
    /\ cleanupFn = "absent"
    /\ got = None
    /\ calls = <<>>
    /\ escaped = FALSE
    /\ threwBefore = FALSE

\* The client before the builder's artifact runs in any page.
ClientIdle ==
    /\ page = "boot"
    /\ torn = FALSE
    /\ ws = 0
    /\ reconnectTimer = 0
    /\ timers = {}
    /\ sock = <<>>
    /\ connects = 0
    /\ timersMade = 0
    /\ cstep = "none"

\* A text not there yet: a text that no artifact and no code can be.
Unset == <<"unset">>

StripIdle ==
    /\ artifact = <<>>
    /\ code1 = Unset
    /\ code2 = Unset
    /\ sentFrom = Unset
    /\ prevFrom = Unset
    /\ prevCode = Unset
    /\ made = None


\* --------------------------------------------------------- notifyClients
\* notifyClients(): read scriptPath from the disk d; a failed read is caught
\* and nothing is sent.  Otherwise the message goes to every member of
\* clients whose readyState is OPEN.  n is the rebuild that calls it.
notifyClients_SendToAll(d, n) ==
    IF d[scriptPath] = Absent THEN None
    ELSE [build |-> n, code |-> d[scriptPath], to |-> clients]

notifyClients(d, n) ==
    IF d[scriptPath] = Absent THEN None
    ELSE [build |-> n, code |-> d[scriptPath],
          to |-> {c \in clients : readyState[c] = OPEN}]

\* ------------------------------------------------------------- rebuild()
Coord ==
    [rebuilding |-> rebuilding, needsRebuild |-> needsRebuild,
     started |-> started, inflight |-> inflight]

SetCoord(st) ==
    /\ rebuilding' = st.rebuilding
    /\ needsRebuild' = st.needsRebuild
    /\ started' = st.started
    /\ inflight' = st.inflight

\* A call of rebuild() suspended at `await loadConfig(configPath)`.
Suspended(n) == [id |-> n, at |-> "loadConfig", cfg |-> InvalidConfig]

\* rebuild() from its entry to its first await.
rebuild_NoGuard(st) ==
    [st EXCEPT !.rebuilding = TRUE,
               !.started = @ + 1,
               !.inflight = @ \cup {Suspended(st.started + 1)}]

rebuild(st) ==
    IF st.rebuilding
    THEN [st EXCEPT !.needsRebuild = TRUE]
    ELSE [st EXCEPT !.rebuilding = TRUE,
                    !.started = @ + 1,
                    !.inflight = @ \cup {Suspended(st.started + 1)}]

\* rebuild() after its try statement: clear the flag, and call rebuild()
\* again when a request came in meanwhile.
afterTry_DropPending(st) ==
    [st EXCEPT !.rebuilding = FALSE, !.needsRebuild = FALSE]

afterTry_NoRestart(st) ==
    [st EXCEPT !.rebuilding = FALSE]

afterTry(st) ==
    LET s1 == [st EXCEPT !.rebuilding = FALSE]
    IN  IF s1.needsRebuild
        THEN rebuild([s1 EXCEPT !.needsRebuild = FALSE])
        ELSE s1

\* The coordinator once the suspended call r has run to its end.
Leave(st, r) == [st EXCEPT !.inflight = @ \ {r}]

\* ----------------------------------------------------------------- Init
ServerInit ==
    /\ pc = "loadConfig"
    /\ exitCode = -1
    /\ watcher = "none"
    /\ wss = "none"
    /\ server = "none"
    /\ configFile \in ConfigFiles
    /\ config = InvalidConfig
    /\ disk = [p \in Paths |-> Absent]
    /\ rebuilding = FALSE
    /\ needsRebuild = FALSE
    /\ started = 0
    /\ inflight = {}
    /\ clients = {}
    /\ readyState = [c \in ClientIds |-> CLOSED]
    /\ evtAt = <<>>
    /\ done = None
    /\ wire = None

Init ==
    /\ ServerInit
    /\ StripIdle
    /\ ClientIdle
    /\ MsgIdle
    /\ HttpIdle
    /\ BuildIdle
    /\ SendIdle
    /\ StoreIdle
    /\ seen = "never"

\* -------------------------------------------------------------- startup
Exit(code) ==
    /\ pc' = "exited"
    /\ exitCode' = code

StartupLoadConfigOk ==
    /\ pc = "loadConfig"
    /\ loadConfig(configFile).ok
    /\ config' = loadConfig(configFile).config
    /\ pc' = "initialBuild"
    /\ done' = None /\ wire' = None
    /\ UNCHANGED <<exitCode, watcher, wss, server, configFile, disk,
                   coordVars, chanVars, evtAt>>

StartupLoadConfigThrows ==
    /\ pc = "loadConfig"
    /\ ~loadConfig(configFile).ok
    /\ Exit(1)
    /\ done' = None /\ wire' = None
    /\ UNCHANGED <<watcher, wss, server, envVars, coordVars, chanVars, evtAt>>

\* The startup build succeeds; the servers and the watcher are created and
\* the signal handlers installed.
InitialBuildOk ==
    /\ pc = "initialBuild"
    /\ disk' = build(disk, config, 0)
    /\ pc' = "running"
    /\ watcher' = "open" /\ wss' = "open" /\ server' = "open"
    /\ done' = None /\ wire' = None
    /\ UNCHANGED <<exitCode, configFile, config, coordVars, chanVars, evtAt>>

InitialBuildThrows ==
    /\ pc = "initialBuild"
    /\ \E cleaned \in BOOLEAN :
          disk' = IF cleaned THEN cleanDir(disk, outDirOf(config)) ELSE disk
    /\ Exit(1)
    /\ done' = None /\ wire' = None
    /\ UNCHANGED <<watcher, wss, server, configFile, config, coordVars,
                   chanVars, evtAt>>

\* ---------------------------------------------------------- environment
\* The developer saves another configuration file.
EditConfig(c) ==
    /\ pc # "exited"
    /\ c # configFile
    /\ configFile' = c
    /\ done' = None /\ wire' = None
    /\ UNCHANGED <<procVars, config, disk, coordVars, chanVars, evtAt>>

\* ------------------------------------------------------ watcher callbacks
\* watcher.on("change") and watcher.on("add"): log the path, call rebuild().
OnWatchEvent ==
    /\ pc = "running"
    /\ watcher = "open"
    /\ Len(evtAt) < MaxEvents
    /\ SetCoord(rebuild(Coord))
    /\ evtAt' = Append(evtAt, IF inflight = {} THEN 0 ELSE started)
    /\ done' = None /\ wire' = None
    /\ UNCHANGED <<procVars, envVars, chanVars>>

\* ------------------------------------------------ rebuild(), after awaits
\* `await loadConfig(configPath)` resolves: go on to `await build(...)`.
RebuildLoadConfigOk_StartupConfig(r) ==
    /\ pc = "running"
    /\ r \in inflight /\ r.at = "loadConfig"
    /\ loadConfig(configFile).ok
    /\ inflight' = (inflight \ {r}) \cup
                   {[r EXCEPT !.at = "build", !.cfg = config]}
    /\ done' = None /\ wire' = None
    /\ UNCHANGED <<procVars, envVars, rebuilding, needsRebuild, started,
                   chanVars, evtAt>>

RebuildLoadConfigOk(r) ==
    /\ pc = "running"
    /\ r \in inflight /\ r.at = "loadConfig"
    /\ loadConfig(configFile).ok
    /\ inflight' = (inflight \ {r}) \cup
                   {[r EXCEPT !.at = "build", !.cfg = loadConfig(configFile).config]}
    /\ done' = None /\ wire' = None
    /\ UNCHANGED <<procVars, envVars, rebuilding, needsRebuild, started,
                   chanVars, evtAt>>

\* `await loadConfig(configPath)` rejects: the catch logs, the tail runs.
RebuildLoadConfigThrows_Exit(r) ==
    /\ pc = "running"
    /\ r \in inflight /\ r.at = "loadConfig"
    /\ ~loadConfig(configFile).ok
    /\ Exit(1)
    /\ done' = [id |-> r.id, result |-> "failed"]
    /\ wire' = None
    /\ UNCHANGED <<watcher, wss, server, envVars, coordVars, chanVars, evtAt>>

RebuildLoadConfigThrows(r) ==
    /\ pc = "running"
    /\ r \in inflight /\ r.at = "loadConfig"
    /\ ~loadConfig(configFile).ok
    /\ SetCoord(afterTry(Leave(Coord, r)))
    /\ done' = [id |-> r.id, result |-> "failed"]
    /\ wire' = None
    /\ UNCHANGED <<procVars, envVars, chanVars, evtAt>>

\* `await build(...)` resolves: notifyClients(), then the tail.
RebuildBuildOk_DropsNotOpen(r) ==
    /\ pc = "running"
    /\ r \in inflight /\ r.at = "build"
    /\ disk' = build(disk, r.cfg, r.id)
    /\ wire' = notifyClients(disk', r.id)
    /\ clients' = {c \in clients : readyState[c] = OPEN}
    /\ SetCoord(afterTry(Leave(Coord, r)))
    /\ done' = [id |-> r.id, result |-> "ok"]
    /\ UNCHANGED <<procVars, configFile, config, readyState, evtAt>>

RebuildBuildOk(r) ==
    /\ pc = "running"
    /\ r \in inflight /\ r.at = "build"
    /\ disk' = build(disk, r.cfg, r.id)
    /\ wire' = notifyClients(disk', r.id)
    /\ SetCoord(afterTry(Leave(Coord, r)))
    /\ done' = [id |-> r.id, result |-> "ok"]
    /\ UNCHANGED <<procVars, configFile, config, chanVars, evtAt>>

\* `await build(...)` rejects, before or after tsdown emptied outDir: the
\* catch logs, the tail runs.
RebuildBuildThrows_NotifyAnyway(r) ==
    /\ pc = "running"
    /\ r \in inflight /\ r.at = "build"
    /\ \E cleaned \in BOOLEAN :
          disk' = IF cleaned THEN cleanDir(disk, outDirOf(r.cfg)) ELSE disk
    /\ wire' = notifyClients(disk', r.id)
    /\ SetCoord(afterTry(Leave(Coord, r)))
    /\ done' = [id |-> r.id, result |-> "failed"]
    /\ UNCHANGED <<procVars, configFile, config, chanVars, evtAt>>

RebuildBuildThrows_ReturnInCatch(r) ==
    /\ pc = "running"
    /\ r \in inflight /\ r.at = "build"
    /\ \E cleaned \in BOOLEAN :
          disk' = IF cleaned THEN cleanDir(disk, outDirOf(r.cfg)) ELSE disk
    /\ wire' = None
    /\ SetCoord(Leave(Coord, r))
    /\ done' = [id |-> r.id, result |-> "failed"]
    /\ UNCHANGED <<procVars, configFile, config, chanVars, evtAt>>

RebuildBuildThrows(r) ==
    /\ pc = "running"
    /\ r \in inflight /\ r.at = "build"
    /\ \E cleaned \in BOOLEAN :
          disk' = IF cleaned THEN cleanDir(disk, outDirOf(r.cfg)) ELSE disk
    /\ wire' = None
    /\ SetCoord(afterTry(Leave(Coord, r)))
    /\ done' = [id |-> r.id, result |-> "failed"]
    /\ UNCHANGED <<procVars, configFile, config, chanVars, evtAt>>

\* --------------------------------------------------- WebSocket callbacks
\* wss.on("connection"): a new socket, open, joins the set.
OnConnection_Replay(c) ==
    /\ pc = "running"
    /\ wss = "open"
    /\ c \notin clients
    /\ clients' = clients \cup {c}
    /\ readyState' = [readyState EXCEPT ![c] = OPEN]
    /\ done' = None
    /\ wire' = IF disk[scriptPath] = Absent THEN None
               ELSE [build |-> started, code |-> disk[scriptPath], to |-> {c}]
    /\ UNCHANGED <<procVars, envVars, coordVars, evtAt>>

OnConnection(c) ==
    /\ pc = "running"
    /\ wss = "open"
    /\ c \notin clients
    /\ clients' = clients \cup {c}
    /\ readyState' = [readyState EXCEPT ![c] = OPEN]
    /\ done' = None /\ wire' = None
    /\ UNCHANGED <<procVars, envVars, coordVars, evtAt>>

\* The closing handshake of a member begins; its close event is yet to come.
SocketClosing(c) ==
    /\ pc = "running"
    /\ c \in clients
    /\ readyState[c] = OPEN
    /\ readyState' = [readyState EXCEPT ![c] = CLOSING]
    /\ done' = None /\ wire' = None
    /\ UNCHANGED <<procVars, envVars, coordVars, clients, evtAt>>

\* ws.on("close"): the socket is closed and leaves the set.
OnClose(c) ==
    /\ pc = "running"
    /\ c \in clients
    /\ clients' = clients \ {c}
    /\ readyState' = [readyState EXCEPT ![c] = CLOSED]
    /\ done' = None /\ wire' = None
    /\ UNCHANGED <<procVars, envVars, coordVars, evtAt>>

\* ------------------------------------------------------------- shutdown
\* SIGINT or SIGTERM: close the watcher and both servers, exit 0.
Shutdown_NoExit ==
    /\ pc = "running"
    /\ watcher' = "closed" /\ wss' = "closed" /\ server' = "closed"
    /\ done' = None /\ wire' = None
    /\ UNCHANGED <<pc, exitCode, envVars, coordVars, chanVars, evtAt>>

Shutdown ==
    /\ pc = "running"
    /\ watcher' = "closed" /\ wss' = "closed" /\ server' = "closed"
    /\ Exit(0)
    /\ done' = None /\ wire' = None
    /\ UNCHANGED <<envVars, coordVars, chanVars, evtAt>>

\* ----------------------------------------------------------------- Next
\* A step of the server leaves the other specifications' variables.
Still == UNCHANGED <<stripVars, clientVars, msgVars, httpVars, buildVars,
                     sendVars, storeVars>>

Quiet == Still /\ UNCHANGED seen

Next ==
    \/ StartupLoadConfigOk /\ Quiet
    \/ StartupLoadConfigThrows /\ Quiet
    \/ InitialBuildOk /\ Quiet
    \/ InitialBuildThrows /\ Quiet
    \/ \E c \in ConfigFiles : EditConfig(c) /\ Quiet
    \/ OnWatchEvent /\ Quiet
    \/ \E r \in inflight : RebuildLoadConfigOk(r) /\ Quiet
    \/ \E r \in inflight : RebuildLoadConfigThrows(r) /\ Quiet
    \/ \E r \in inflight : RebuildBuildOk(r) /\ Quiet
    \/ \E r \in inflight : RebuildBuildThrows(r) /\ Quiet
    \/ \E c \in ClientIds : OnConnection(c) /\ Quiet
    \/ \E c \in ClientIds : SocketClosing(c) /\ Quiet
    \/ \E c \in ClientIds : OnClose(c) /\ Quiet
    \/ Shutdown /\ Quiet

Spec == Init /\ [][Next]_vars

\* The same server, watched: `seen` follows the page "c1" through its
\* connections.  "never": not connected yet; "in": connected; "away": its
\* socket's close event has run; "missed": a broadcast was made while it was
\* away; "back": it connected again after that.
Watch ==
    seen' = IF "c1" \in clients' \ clients
              THEN (IF seen = "missed" THEN "back" ELSE "in")
            ELSE IF "c1" \in clients \ clients' THEN "away"
            ELSE IF wire' # None /\ seen = "away" THEN "missed"
            ELSE seen

\* Watcher callbacks delivered in one run of the watched server.
MaxWatched == 2

WatchedNext ==
    \/ StartupLoadConfigOk /\ Watch /\ Still
    \/ StartupLoadConfigThrows /\ Watch /\ Still
    \/ InitialBuildOk /\ Watch /\ Still
    \/ InitialBuildThrows /\ Watch /\ Still
    \/ \E c \in ConfigFiles : EditConfig(c) /\ Watch /\ Still
    \/ OnWatchEvent /\ Len(evtAt) < MaxWatched /\ Watch /\ Still
    \/ \E r \in inflight : RebuildLoadConfigOk(r) /\ Watch /\ Still
    \/ \E r \in inflight : RebuildLoadConfigThrows(r) /\ Watch /\ Still
    \/ \E r \in inflight : RebuildBuildOk(r) /\ Watch /\ Still
    \/ \E r \in inflight : RebuildBuildThrows(r) /\ Watch /\ Still
    \/ \E c \in ClientIds : OnConnection(c) /\ Watch /\ Still
    \/ \E c \in ClientIds : SocketClosing(c) /\ Watch /\ Still
    \/ \E c \in ClientIds : OnClose(c) /\ Watch /\ Still
    \/ Shutdown /\ Watch /\ Still

watchedVars == <<vars, seen>>

ChanSpec == Init /\ [][WatchedNext]_watchedVars


\* -------------------------------------------------------------- HttpSpec
\* The same server with its HTTP endpoint.  A request is its url after the
\* leading "/" ("" for the url "/"), and whether readFileSync throws.
Urls == {"", "nope"} \cup { outFileOf(c) : c \in Configs }

Response(url, status, contentType, cors, text, content, readFailed) ==
    [url |-> url, status |-> status, contentType |-> contentType,
     cors |-> cors, text |-> text, content |-> content,
     readFailed |-> readFailed]

\* The createServer callback.  outFile, like scriptPath, is the startup
\* configuration's.
handler(url, readFails) ==
    IF url = outFileOf(config) \/ url = ""
    THEN IF disk[scriptPath] = Absent
         THEN Response(url, 404, "text/plain", "", "Userscript not found",
                       Absent, FALSE)
         ELSE IF readFails
         THEN Response(url, 500, "text/plain", "", "Error reading userscript",
                       Absent, TRUE)
         ELSE Response(url, 200, "text/javascript", "*", "",
                       disk[scriptPath], FALSE)
    ELSE Response(url, 404, "text/plain", "", "Not found", Absent, FALSE)

\* A request arrives while the server listens.
OnRequest(url, readFails) ==
    /\ pc = "running"
    /\ server = "open"
    /\ res' = handler(url, readFails)
    /\ done' = None /\ wire' = None
    /\ UNCHANGED <<procVars, envVars, coordVars, chanVars, evtAt, lastOut>>
    /\ UNCHANGED <<stripVars, clientVars, msgVars, buildVars, seen,
                   sendVars, storeVars>>

\* Any other step of the server sends no response; lastOut follows the
\* builds that succeed.
Served ==
    /\ res' = None
    /\ lastOut' = IF pc = "initialBuild" /\ pc' = "running"
                    THEN outputPath(config)
                  ELSE IF done' # None /\ done'.result = "ok"
                    THEN CHOOSE p \in Paths : disk'[p] = done'.id
                  ELSE lastOut
    /\ UNCHANGED <<stripVars, clientVars, msgVars, buildVars, seen,
                   sendVars, storeVars>>

\* Watcher callbacks delivered in one run of the server with its endpoint.
MaxServed == 1

HttpNext ==
    \/ StartupLoadConfigOk /\ Served
    \/ StartupLoadConfigThrows /\ Served
    \/ InitialBuildOk /\ Served
    \/ InitialBuildThrows /\ Served
    \/ \E c \in ConfigFiles : EditConfig(c) /\ Served
    \/ OnWatchEvent /\ Len(evtAt) < MaxServed /\ Served
    \/ \E r \in inflight : RebuildLoadConfigOk(r) /\ Served
    \/ \E r \in inflight : RebuildLoadConfigThrows(r) /\ Served
    \/ \E r \in inflight : RebuildBuildOk(r) /\ Served
    \/ \E r \in inflight : RebuildBuildThrows(r) /\ Served
    \/ \E c \in ClientIds : OnConnection(c) /\ Served
    \/ \E c \in ClientIds : SocketClosing(c) /\ Served
    \/ \E c \in ClientIds : OnClose(c) /\ Served
    \/ Shutdown /\ Served
    \/ \E url \in Urls, readFails \in BOOLEAN : OnRequest(url, readFails)

servedVars == <<vars, httpVars>>

HttpSpec == Init /\ [][HttpNext]_servedVars


\* ------------------------------------------------- sends that may throw
\* The loop of notifyClients, `clients.forEach(...)`, visits the members in
\* the order they were added and has no try of its own: when client.send
\* throws for a socket in faulty, the loop ends there and the catch of
\* notifyClients logs.  The sockets sent to, and the one whose send threw.
RECURSIVE forEachSend(_, _)
forEachSend(order, faulty) ==
    IF order = <<>> THEN [to |-> {}, threw |-> ""]
    ELSE IF readyState[Head(order)] # OPEN
      THEN forEachSend(Tail(order), faulty)
    ELSE IF Head(order) \in faulty
      THEN [to |-> {}, threw |-> Head(order)]
    ELSE LET rest == forEachSend(Tail(order), faulty)
         IN  [rest EXCEPT !.to = @ \cup {Head(order)}]

\* notifyClients() with such sockets: what went out.
notifyClientsSending(d, n, faulty) ==
    IF d[scriptPath] = Absent THEN None
    ELSE [build |-> n, code |-> d[scriptPath],
          to |-> forEachSend(joined, faulty).to]

\* `joined` follows clients.add and clients.delete.
Ordered ==
    joined' = IF clients' \ clients # {}
                THEN Append(joined, CHOOSE c \in clients' \ clients : TRUE)
              ELSE SelectSeq(joined, LAMBDA c : c \in clients')

\* A step of the server in which no send throws.
Sending ==
    /\ Ordered
    /\ threwAt' = ""
    /\ UNCHANGED <<stripVars, clientVars, msgVars, httpVars, buildVars,
                   storeVars, seen>>

\* `await build(...)` resolves: notifyClients(), in which the send to a
\* socket of faulty throws, then the tail.
RebuildBuildOkSending(r, faulty) ==
    /\ pc = "running"
    /\ r \in inflight /\ r.at = "build"
    /\ disk' = build(disk, r.cfg, r.id)
    /\ wire' = notifyClientsSending(disk', r.id, faulty)
    /\ threwAt' = IF disk'[scriptPath] = Absent THEN ""
                  ELSE forEachSend(joined, faulty).threw
    /\ SetCoord(afterTry(Leave(Coord, r)))
    /\ done' = [id |-> r.id, result |-> "ok"]
    /\ UNCHANGED <<procVars, configFile, config, chanVars, evtAt, joined>>
    /\ UNCHANGED <<stripVars, clientVars, msgVars, httpVars, buildVars,
                   storeVars, seen>>

\* At most one socket's send throws in a broadcast.
Faulty == {{}} \cup { {c} : c \in ClientIds }

\* Watcher callbacks delivered in one run of the server with such sockets.
MaxSent == 2

SendNext ==
    \/ StartupLoadConfigOk /\ Sending
    \/ StartupLoadConfigThrows /\ Sending
    \/ InitialBuildOk /\ Sending
    \/ InitialBuildThrows /\ Sending
    \/ \E c \in ConfigFiles : EditConfig(c) /\ Sending
    \/ OnWatchEvent /\ Len(evtAt) < MaxSent /\ Sending
    \/ \E r \in inflight : RebuildLoadConfigOk(r) /\ Sending
    \/ \E r \in inflight : RebuildLoadConfigThrows(r) /\ Sending
    \/ \E r \in inflight, faulty \in Faulty : RebuildBuildOkSending(r, faulty)
    \/ \E r \in inflight : RebuildBuildThrows(r) /\ Sending
    \/ \E c \in ClientIds : OnConnection(c) /\ Sending
    \/ \E c \in ClientIds : SocketClosing(c) /\ Sending
    \/ \E c \in ClientIds : OnClose(c) /\ Sending
    \/ Shutdown /\ Sending

sentVars == <<vars, sendVars>>

SendSpec == Init /\ [][SendNext]_sentVars


\* ================================================ the payload, on texts
\* A text is a sequence of pieces; what it stands for is the pieces joined.
\* The three markers notifyClients searches for are pieces of their own, so
\* a search for a marker is a search for a piece.
headerEndMarker    == "// ==/UserScript=="
hotReloadMarker    == "// Hot reload client - injected in development mode"
hotReloadEndMarker == "})();"

\* What String.prototype.trimStart removes.
Whitespace == {"\n"}

Alphabet == {headerEndMarker, hotReloadMarker, hotReloadEndMarker, "\n", "a", "b"}

\* Pieces in a text drawn at large.
MaxLen == 5
\* Pieces in the metadata lines, and in the bundled code, of a built artifact.
MaxMeta == 3
MaxUser == 1

Texts(n) == UNION { [1..k -> Alphabet] : k \in 0..n }

Range(s) == { s[i] : i \in DOMAIN s }

\* s.indexOf(piece, from): the first place at or after `from` (counted from
\* 1), 0 when there is none (JavaScript's -1).
RECURSIVE indexOf(_, _, _)
indexOf(s, piece, from) ==
    IF from > Len(s) THEN 0
    ELSE IF s[from] = piece THEN from
    ELSE indexOf(s, piece, from + 1)

\* s.trimStart()
RECURSIVE trimStart(_)
trimStart(s) ==
    IF s # <<>> /\ Head(s) \in Whitespace THEN trimStart(Tail(s)) ELSE s

\* s.slice(index + marker.length), for the marker at place i
sliceAfter(s, i) == SubSeq(s, i + 1, Len(s))

\* notifyClients, from scriptContent to the code of the message.
reloadCode_EndFromStart(scriptContent) ==
    LET headerEndIndex == indexOf(scriptContent, headerEndMarker, 1)
        c0 == IF headerEndIndex # 0
              THEN trimStart(sliceAfter(scriptContent, headerEndIndex))
              ELSE scriptContent
        hotReloadIndex == indexOf(c0, hotReloadMarker, 1)
        hotReloadEndIndex == IF hotReloadIndex # 0
                             THEN indexOf(c0, hotReloadEndMarker, 1)
                             ELSE 0
    IN  IF hotReloadIndex # 0 /\ hotReloadEndIndex # 0
        THEN trimStart(sliceAfter(c0, hotReloadEndIndex))
        ELSE c0

reloadCode_TrimAlways(scriptContent) ==
    LET headerEndIndex == indexOf(scriptContent, headerEndMarker, 1)
        c0 == trimStart(sliceAfter(scriptContent, headerEndIndex))
        hotReloadIndex == indexOf(c0, hotReloadMarker, 1)
        hotReloadEndIndex == IF hotReloadIndex # 0
                             THEN indexOf(c0, hotReloadEndMarker, hotReloadIndex)
                             ELSE 0
    IN  IF hotReloadIndex # 0 /\ hotReloadEndIndex # 0
        THEN trimStart(sliceAfter(c0, hotReloadEndIndex))
        ELSE c0

reloadCode_NoTrim(scriptContent) ==
    LET headerEndIndex == indexOf(scriptContent, headerEndMarker, 1)
        c0 == IF headerEndIndex # 0
              THEN sliceAfter(scriptContent, headerEndIndex)
              ELSE scriptContent
        hotReloadIndex == indexOf(c0, hotReloadMarker, 1)
        hotReloadEndIndex == IF hotReloadIndex # 0
                             THEN indexOf(c0, hotReloadEndMarker, hotReloadIndex)
                             ELSE 0
    IN  IF hotReloadIndex # 0 /\ hotReloadEndIndex # 0
        THEN trimStart(sliceAfter(c0, hotReloadEndIndex))
        ELSE c0

reloadCode(scriptContent) ==
    LET headerEndIndex == indexOf(scriptContent, headerEndMarker, 1)
        c0 == IF headerEndIndex # 0
              THEN trimStart(sliceAfter(scriptContent, headerEndIndex))
              ELSE scriptContent
        hotReloadIndex == indexOf(c0, hotReloadMarker, 1)
        hotReloadEndIndex == IF hotReloadIndex # 0
                             THEN indexOf(c0, hotReloadEndMarker, hotReloadIndex)
                             ELSE 0
    IN  IF hotReloadIndex # 0 /\ hotReloadEndIndex # 0
        THEN trimStart(sliceAfter(c0, hotReloadEndIndex))
        ELSE c0

\* ---------------------------------------------------- what build() writes
headerStart == "// ==UserScript=="

\* The function the client block wraps, up to its closing construct.
hotReloadBody(port) ==
    "(function() { const HOT_RELOAD_PORT = " \o ToString(port) \o "; connect();"

\* generateHeader(metadata): the opening line, the metadata lines, the
\* closing line, a line break.
generateHeader(meta) == <<headerStart>> \o meta \o <<headerEndMarker, "\n">>

\* getHotReloadClient(port)
getHotReloadClient(port) ==
    <<"\n", hotReloadMarker, "\n", hotReloadBody(port), hotReloadEndMarker,
      "\n">>

\* build(): the banner is the header and, when options.dev and
\* options.hotReloadPort are both truthy (a port left out is 0 here), a
\* line break and the client; tsdown puts the bundle after the banner.
banner_ClientForAnyPort(meta, dev, hotReloadPort) ==
    generateHeader(meta)
        \o (IF hotReloadPort # 0
            THEN <<"\n">> \o getHotReloadClient(hotReloadPort) ELSE <<>>)

banner(meta, dev, hotReloadPort) ==
    generateHeader(meta)
        \o (IF dev /\ hotReloadPort # 0
            THEN <<"\n">> \o getHotReloadClient(hotReloadPort) ELSE <<>>)

builtArtifact(meta, user, dev, hotReloadPort) ==
    banner(meta, dev, hotReloadPort) \o <<"\n">> \o user

\* const port = options.port || 3000; const wsPort = options.wsPort || port + 1
DefaultPort == 3000

portOf(options) == IF options.port # 0 THEN options.port ELSE DefaultPort

wsPortOf(options) ==
    IF options.wsPort # 0 THEN options.wsPort ELSE portOf(options) + 1

\* What startDevServer can be given: a port or none (0), a wsPort or none.
DevOptions == [port : {0, 8080}, wsPort : {0, 9000}]

\* Every port a development build of the model embeds.
WsPorts == { wsPortOf(o) : o \in DevOptions }

\* The client bodies a text can hold.
ClientBodies == { hotReloadBody(p) : p \in WsPorts }

\* -------------------------------------------------------------- StripSpec
\* The payload construction applied to a text: any text of up to MaxLen
\* pieces, or an artifact as build() writes it.
StripInit ==
    /\ ServerInit /\ configFile = InvalidConfig
    /\ ClientIdle
    /\ MsgIdle
    /\ HttpIdle
    /\ BuildIdle
    /\ SendIdle
    /\ StoreIdle
    /\ seen = "never"
    /\ \/ /\ artifact \in Texts(MaxLen)
          /\ made = None
       \/ \E meta \in Texts(MaxMeta), user \in Texts(MaxUser), dev \in BOOLEAN :
             /\ artifact = builtArtifact(meta, user, dev, DefaultPort + 1)
             /\ made = [meta |-> meta, user |-> user, dev |-> dev,
                        port |-> DefaultPort + 1, by |-> "build"]
    /\ code1 = Unset
    /\ code2 = Unset
    /\ sentFrom = Unset
    /\ prevFrom = Unset
    /\ prevCode = Unset

othersOfStrip == <<vars, clientVars, msgVars, httpVars, buildVars, seen,
                   sendVars, storeVars>>

\* notifyClients makes the code of the message from the artifact.
MakeCode ==
    /\ code1 = Unset
    /\ code1' = reloadCode(artifact)
    /\ UNCHANGED <<artifact, code2, sentFrom, prevFrom, prevCode, made>>
    /\ UNCHANGED othersOfStrip

\* The same construction applied to the code it made.
MakeCodeAgain ==
    /\ code1 # Unset
    /\ code2 = Unset
    /\ code2' = reloadCode(code1)
    /\ UNCHANGED <<artifact, code1, sentFrom, prevFrom, prevCode, made>>
    /\ UNCHANGED othersOfStrip

StripNext ==
    \/ MakeCode
    \/ MakeCodeAgain

StripSpec == StripInit /\ [][StripNext]_stripVars

\* -------------------------------------------------------------- CacheSpec
\* Builds and broadcasts in turn, on the text of the artifact: what each
\* broadcast read and what it sent.
MetaLines == { <<"a">>, <<"b">> }
Bundles   == { <<>>, <<"a">>, <<"b">> }
CacheArtifacts ==
    { builtArtifact(meta, user, TRUE, DefaultPort + 1) :
          meta \in MetaLines, user \in Bundles }

CacheInit ==
    /\ ServerInit /\ configFile = InvalidConfig
    /\ ClientIdle
    /\ MsgIdle
    /\ HttpIdle
    /\ BuildIdle
    /\ SendIdle
    /\ StoreIdle
    /\ seen = "never"
    /\ artifact \in CacheArtifacts
    /\ code1 = Unset
    /\ code2 = Unset
    /\ sentFrom = Unset
    /\ prevFrom = Unset
    /\ prevCode = Unset
    /\ made = None

\* build() writes the artifact.
BuildWritesArtifact(text) ==
    /\ artifact' = text
    /\ UNCHANGED <<code1, code2, sentFrom, prevFrom, prevCode, made>>
    /\ UNCHANGED othersOfStrip

\* notifyClients reads the file and makes the message.
NotifyFromDisk_Cached ==
    /\ sentFrom' = artifact
    /\ code1' = IF code1 = Unset THEN reloadCode(artifact) ELSE code1
    /\ prevFrom' = sentFrom
    /\ prevCode' = code1
    /\ UNCHANGED <<artifact, code2, made>>
    /\ UNCHANGED othersOfStrip

NotifyFromDisk ==
    /\ sentFrom' = artifact
    /\ code1' = reloadCode(artifact)
    /\ prevFrom' = sentFrom
    /\ prevCode' = code1
    /\ UNCHANGED <<artifact, code2, made>>
    /\ UNCHANGED othersOfStrip

CacheNext ==
    \/ \E text \in CacheArtifacts : BuildWritesArtifact(text)
    \/ NotifyFromDisk

CacheSpec == CacheInit /\ [][CacheNext]_stripVars

\* ================================================== the injected client
\* getHotReloadClient: the function the builder puts into a development
\* artifact, running in one page.  A step is one task of the page: the
\* script's start, an event of a socket, a timer, beforeunload.
ReconnectDelay == 1000

\* Calls of connect() the model follows.
MaxAttempts == 4

\* let ws, let reconnectTimer, and what the page holds for them.
Client ==
    [ws |-> ws, reconnectTimer |-> reconnectTimer, timers |-> timers,
     sock |-> sock, connects |-> connects, timersMade |-> timersMade]

SetClient(c) ==
    /\ ws' = c.ws
    /\ reconnectTimer' = c.reconnectTimer
    /\ timers' = c.timers
    /\ sock' = c.sock
    /\ connects' = c.connects
    /\ timersMade' = c.timersMade

\* reconnectTimer = setTimeout(connect, 1000)
scheduleReconnect(c) ==
    [c EXCEPT !.timersMade = @ + 1,
              !.timers = @ \cup {[id |-> c.timersMade + 1,
                                  delay |-> ReconnectDelay]},
              !.reconnectTimer = c.timersMade + 1]

\* clearTimeout(id): nothing when the timer has fired already
clearTimeout(c, id) == [c EXCEPT !.timers = {t \in @ : t.id # id}]

\* WebSocket.close(): nothing when the socket is closing or closed
closeSocket(c, s) ==
    IF c.sock[s] \in {"connecting", "open"}
    THEN [c EXCEPT !.sock[s] = "closing"]
    ELSE c

\* connect(): the constructor returns a socket, or throws and the catch
\* schedules a reconnect.
connect(c, throws) ==
    LET c1 == [c EXCEPT !.connects = @ + 1]
    IN  IF throws
        THEN scheduleReconnect(c1)
        ELSE [c1 EXCEPT !.sock = Append(@, "connecting"),
                        !.ws = Len(c.sock) + 1]

\* ws.onopen
onopen_AlsoSchedules(c) ==
    scheduleReconnect(IF c.reconnectTimer # 0
                      THEN [clearTimeout(c, c.reconnectTimer)
                               EXCEPT !.reconnectTimer = 0]
                      ELSE c)

onopen(c) ==
    IF c.reconnectTimer # 0
    THEN [clearTimeout(c, c.reconnectTimer) EXCEPT !.reconnectTimer = 0]
    ELSE c

\* ws.onclose
onclose_GiveUp(c) ==
    IF c.connects < 2 THEN scheduleReconnect(c) ELSE c

onclose(c) == scheduleReconnect(c)

\* ws.onerror: closes the socket `ws` names
onerror_AlsoSchedules(c) == scheduleReconnect(closeSocket(c, c.ws))

onerror(c) == closeSocket(c, c.ws)

\* the beforeunload listener
beforeunload(c) ==
    LET c1 == IF c.ws # 0 THEN closeSocket(c, c.ws) ELSE c
    IN  IF c1.reconnectTimer # 0
        THEN clearTimeout(c1, c1.reconnectTimer)
        ELSE c1

\* What window.__USX_CLEANUP__ can be: not a function, a function that
\* returns, a function that throws.
CleanupFns == {"absent", "returns", "throws"}

\* event.data of a message: text that is no JSON, the JSON texts null and
\* 1, and JSON objects with a type ("none": no such property) and a code
\* ("": absent or empty; "runs", "throws": what evaluating it does).
Messages ==
    { [shape |-> sh, type |-> "none", code |-> ""] :
          sh \in {"text", "null", "number"} }
    \cup
    { [shape |-> "object", type |-> t, code |-> c] :
          t \in {"reload", "other", "none"}, c \in {"", "runs", "throws"} }

\* ws.onmessage: what it calls, in order, and whether an exception leaves
\* it.  "start": the hot reload is announced; "cleanup": __USX_CLEANUP__
\* is called; "warn": its error is logged; "eval": the code is evaluated;
\* "done": success is logged; "error": the execution error is logged.
onmessage_EvalFirst(msg, fn) ==
    IF msg.shape \in {"text", "null"}
    THEN [calls |-> <<>>, escaped |-> TRUE]
    ELSE IF msg.shape = "object" /\ msg.type = "reload" /\ msg.code # ""
    THEN LET cleanup == IF fn = "absent" THEN <<>>
                        ELSE IF fn = "throws" THEN <<"cleanup", "warn">>
                        ELSE <<"cleanup">>
         IN  [calls |-> <<"start", "eval">> \o cleanup
                          \o (IF msg.code = "throws" THEN <<"error">>
                              ELSE <<"done">>),
              escaped |-> FALSE]
    ELSE [calls |-> <<>>, escaped |-> FALSE]

onmessage_CleanupUnguarded(msg, fn) ==
    IF msg.shape \in {"text", "null"}
    THEN [calls |-> <<>>, escaped |-> TRUE]
    ELSE IF msg.shape = "object" /\ msg.type = "reload" /\ msg.code # ""
    THEN IF fn = "throws"
         THEN [calls |-> <<"start", "cleanup", "error">>, escaped |-> FALSE]
         ELSE [calls |-> <<"start">>
                          \o (IF fn = "absent" THEN <<>> ELSE <<"cleanup">>)
                          \o <<"eval">>
                          \o (IF msg.code = "throws" THEN <<"error">>
                              ELSE <<"done">>),
               escaped |-> FALSE]
    ELSE [calls |-> <<>>, escaped |-> FALSE]

onmessage(msg, fn) ==
    IF msg.shape = "text"
    THEN \* JSON.parse throws, outside any try
         [calls |-> <<>>, escaped |-> TRUE]
    ELSE IF msg.shape = "null"
    THEN \* data is null: reading data.type throws
         [calls |-> <<>>, escaped |-> TRUE]
    ELSE IF msg.shape = "object" /\ msg.type = "reload" /\ msg.code # ""
    THEN LET cleanup == IF fn = "absent" THEN <<>>
                        ELSE IF fn = "throws" THEN <<"cleanup", "warn">>
                        ELSE <<"cleanup">>
         IN  [calls |-> <<"start">> \o cleanup \o <<"eval">>
                          \o (IF msg.code = "throws" THEN <<"error">>
                              ELSE <<"done">>),
              escaped |-> FALSE]
    ELSE [calls |-> <<>>, escaped |-> FALSE]

\* Every timer the client can have set: one per call of connect() at most.
Timers == { [id |-> i, delay |-> ReconnectDelay] : i \in 1..MaxAttempts }

othersOfClient == <<vars, stripVars, httpVars, buildVars, seen,
                    sendVars, storeVars>>

ClientInit ==
    /\ ServerInit /\ configFile = InvalidConfig
    /\ StripIdle
    /\ seen = "never"
    /\ ClientIdle
    /\ MsgIdle
    /\ HttpIdle
    /\ BuildIdle
    /\ SendIdle
    /\ StoreIdle

\* The artifact runs in the page: connect(), then the listener is added.
RunClient ==
    /\ page = "boot"
    /\ page' = "alive"
    /\ \E throws \in BOOLEAN : SetClient(connect(Client, throws))
    /\ cstep' = "start"
    /\ cleanupFn' \in CleanupFns
    /\ UNCHANGED <<torn, got, calls, escaped, threwBefore>>
    /\ UNCHANGED othersOfClient

\* The open event of socket s.
SocketOpens(s) ==
    /\ page = "alive"
    /\ s \in DOMAIN sock /\ sock[s] = "connecting"
    /\ SetClient(onopen([Client EXCEPT !.sock[s] = "open"]))
    /\ cstep' = "open"
    /\ UNCHANGED <<page, torn>>
    /\ UNCHANGED msgVars
    /\ UNCHANGED othersOfClient

\* The connection of socket s ends: the page sets it closed and fires, in
\* one task, the error event when the connection failed, then the close
\* event.  A connection that was never open ends by failing unless
\* close() was called on it.
SocketCloses(s, failed) ==
    /\ page = "alive"
    /\ s \in DOMAIN sock /\ sock[s] \in {"connecting", "open", "closing"}
    /\ sock[s] = "connecting" => failed
    /\ LET c0 == [Client EXCEPT !.sock[s] = "closed"]
           c1 == IF failed THEN onerror(c0) ELSE c0
       IN  SetClient(onclose(c1))
    /\ cstep' = IF failed THEN "errorclose" ELSE "close"
    /\ UNCHANGED <<page, torn>>
    /\ UNCHANGED msgVars
    /\ UNCHANGED othersOfClient

\* A timer set by setTimeout(connect, 1000) fires.
TimerFires(t) ==
    /\ page = "alive"
    /\ t \in timers
    /\ connects < MaxAttempts
    /\ \E throws \in BOOLEAN :
          SetClient(connect([Client EXCEPT !.timers = @ \ {t}], throws))
    /\ cstep' = "timer"
    /\ UNCHANGED <<page, torn>>
    /\ UNCHANGED msgVars
    /\ UNCHANGED othersOfClient

\* beforeunload is dispatched.
BeforeUnload ==
    /\ page = "alive"
    /\ ~torn
    /\ torn' = TRUE
    /\ SetClient(beforeunload(Client))
    /\ cstep' = "unload"
    /\ UNCHANGED page
    /\ UNCHANGED msgVars
    /\ UNCHANGED othersOfClient

\* The page is unloaded: no task of it runs any more.
PageGone ==
    /\ page = "alive"
    /\ torn
    /\ page' = "gone"
    /\ cstep' = "gone"
    /\ UNCHANGED <<torn, ws, reconnectTimer, timers, sock, connects, timersMade>>
    /\ UNCHANGED msgVars
    /\ UNCHANGED othersOfClient

\* A message event of socket s: the page dispatches it only while the
\* socket is open.
OnMessage_CloseOnError(s, msg) ==
    /\ page = "alive"
    /\ s \in DOMAIN sock /\ sock[s] = "open"
    /\ got' = msg
    /\ calls' = onmessage(msg, cleanupFn).calls
    /\ escaped' = onmessage(msg, cleanupFn).escaped
    /\ threwBefore' = (threwBefore \/ "error" \in Range(calls))
    /\ cstep' = "message"
    /\ SetClient(IF "error" \in Range(onmessage(msg, cleanupFn).calls)
                 THEN closeSocket(Client, s) ELSE Client)
    /\ UNCHANGED <<page, torn, cleanupFn>>
    /\ UNCHANGED othersOfClient

OnMessage(s, msg) ==
    /\ page = "alive"
    /\ s \in DOMAIN sock /\ sock[s] = "open"
    /\ got' = msg
    /\ calls' = onmessage(msg, cleanupFn).calls
    /\ escaped' = onmessage(msg, cleanupFn).escaped
    /\ threwBefore' = (threwBefore \/ "error" \in Range(calls))
    /\ cstep' = "message"
    /\ UNCHANGED <<page, torn, ws, reconnectTimer, timers, sock, connects,
                   timersMade, cleanupFn>>
    /\ UNCHANGED othersOfClient

ClientNext ==
    \/ RunClient
    \/ \E s \in 1..MaxAttempts : SocketOpens(s)
    \/ \E s \in 1..MaxAttempts, failed \in BOOLEAN : SocketCloses(s, failed)
    \/ \E t \in Timers : TimerFires(t)
    \/ \E s \in 1..MaxAttempts, msg \in Messages : OnMessage(s, msg)
    \/ BeforeUnload
    \/ PageGone

pageVars == <<clientVars, msgVars>>

ClientSpec == ClientInit /\ [][ClientNext]_pageVars

\* The page runs a timer that is due.
ClientLiveSpec ==
    ClientSpec /\ WF_clientVars(\E t \in Timers : TimerFires(t))

\* -------------------------------------------------------------- BuildSpec
\* build() as its callers call it: the development server at startup and
\* in rebuild(), and anyone else (the `build` command passes no options).
BuildInit ==
    /\ ServerInit /\ configFile = InvalidConfig
    /\ StripIdle
    /\ ClientIdle
    /\ MsgIdle
    /\ HttpIdle
    /\ BuildIdle
    /\ SendIdle
    /\ StoreIdle
    /\ seen = "never"

othersOfBuild == <<vars, clientVars, msgVars, httpVars, seen,
                   sendVars, storeVars>>

Writes(meta, user, dev, hotReloadPort, by) ==
    /\ artifact' = builtArtifact(meta, user, dev, hotReloadPort)
    /\ made' = [meta |-> meta, user |-> user, dev |-> dev,
                port |-> hotReloadPort, by |-> by]
    /\ UNCHANGED <<code1, code2, sentFrom, prevFrom, prevCode>>
    /\ UNCHANGED othersOfBuild

\* startDevServer(options) up to its first build: port and wsPort are set.
StartDevServer(options) ==
    /\ devServer = None
    /\ devServer' = [port |-> portOf(options), wsPort |-> wsPortOf(options),
                     listening |-> FALSE]
    /\ UNCHANGED stripVars
    /\ UNCHANGED othersOfBuild

\* The startup build, after which the WebSocket server is made on wsPort.
DevInitialBuild(meta, user) ==
    /\ devServer # None
    /\ ~devServer.listening
    /\ Writes(meta, user, TRUE, devServer.wsPort, "startup")
    /\ devServer' = [devServer EXCEPT !.listening = TRUE]

\* The build of a rebuild().
DevRebuild(meta, user) ==
    /\ devServer # None
    /\ devServer.listening
    /\ Writes(meta, user, TRUE, devServer.wsPort, "rebuild")
    /\ UNCHANGED devServer

\* build(options) called by anyone else.
Build(meta, user, dev, hotReloadPort) ==
    /\ Writes(meta, user, dev, hotReloadPort, "build")
    /\ UNCHANGED devServer

BuildNext ==
    \/ \E options \in DevOptions : StartDevServer(options)
    \/ \E meta \in MetaLines, user \in Bundles : DevInitialBuild(meta, user)
    \/ \E meta \in MetaLines, user \in Bundles : DevRebuild(meta, user)
    \/ \E meta \in MetaLines, user \in Bundles, dev \in BOOLEAN,
          hotReloadPort \in WsPorts \cup {0} :
             Build(meta, user, dev, hotReloadPort)

builtVars == <<stripVars, buildVars>>

BuildSpec == BuildInit /\ [][BuildNext]_builtVars

\* ============================================================== storage
\* storage (packages/core/src/storage.ts) in a page without GM and without
\* GM_getValue / GM_setValue / GM_deleteValue: every call takes the
\* localStorage branch.
\*
\* A JavaScript value is its type and its literal.
Value(t, v) == [t |-> t, v |-> v]

undefined == Value("undefined", "undefined")

null == Value("null", "null")

\* The values with a JSON text; the strings hold no quote and no backslash.
JsonValues ==
    { Value("number", v) : v \in {"0", "42"} }
    \cup { Value("boolean", v) : v \in {"true", "false"} }
    \cup { null }
    \cup { Value("object", "{\"name\":\"John\"}") }
    \cup { Value("string", v) : v \in {"", "hello", "42", "true", "null"} }

\* What a userscript may pass to storage.set.
Values == JsonValues \cup { Value("number", "NaN"), undefined }

\* What a userscript may pass as defaultValue (undefined: left out).
Defaults == { undefined, Value("number", "0"), Value("string", "hello") }

\* JSON.stringify(value): a JSON text, or undefined for undefined.
stringify(value) ==
    CASE value.t = "string" -> Value("string", "\"" \o value.v \o "\"")
      [] value.t = "undefined" -> undefined
      [] value.t = "number" /\ value.v = "NaN" -> Value("string", "null")
      [] OTHER -> Value("string", value.v)

\* JSON.parse(text): the value the text is the JSON text of, or a throw.
parse(text) ==
    IF \E v \in JsonValues : stringify(v).v = text
    THEN [ok |-> TRUE,
          value |-> CHOOSE v \in JsonValues : stringify(v).v = text]
    ELSE [ok |-> FALSE, value |-> undefined]

\* localStorage.setItem(key, x) stores String(x).
setItem(ls, key, x) == [ls EXCEPT ![key] = [has |-> TRUE, text |-> x.v]]

\* storage.set(key, value), localStorage branch.
storageSet(ls, key, value) ==
    LET serialized == IF value.t = "string" THEN value ELSE stringify(value)
    IN  setItem(ls, key, serialized)

\* storage.get(key, defaultValue), localStorage branch.
storageGet(ls, key, defaultValue) ==
    LET stored == ls[key]
    IN  IF ~stored.has THEN defaultValue
        ELSE IF parse(stored.text).ok THEN parse(stored.text).value
        ELSE Value("string", stored.text)

\* storage.delete(key), localStorage branch.
storageDelete(ls, key) == [ls EXCEPT ![key] = NoItem]

othersOfStore == <<vars, stripVars, clientVars, msgVars, httpVars, buildVars,
                   sendVars, seen>>

StoreInit ==
    /\ ServerInit /\ configFile = InvalidConfig
    /\ StripIdle
    /\ seen = "never"
    /\ ClientIdle
    /\ MsgIdle
    /\ HttpIdle
    /\ BuildIdle
    /\ SendIdle
    /\ StoreIdle

\* await storage.set(key, value)
Set(key, value) ==
    /\ localStorage' = storageSet(localStorage, key, value)
    /\ written' = [written EXCEPT ![key] = value]
    /\ ret' = None
    /\ UNCHANGED othersOfStore

\* await storage.get(key, defaultValue)
Get(key, defaultValue) ==
    /\ ret' = [key |-> key, default |-> defaultValue,
               value |-> storageGet(localStorage, key, defaultValue)]
    /\ UNCHANGED <<localStorage, written>>
    /\ UNCHANGED othersOfStore

\* await storage.delete(key)
Delete(key) ==
    /\ localStorage' = storageDelete(localStorage, key)
    /\ written' = [written EXCEPT ![key] = Nothing]
    /\ ret' = None
    /\ UNCHANGED othersOfStore

StoreNext ==
    \/ \E key \in Keys, value \in Values : Set(key, value)
    \/ \E key \in Keys, defaultValue \in Defaults : Get(key, defaultValue)
    \/ \E key \in Keys : Delete(key)

StoreSpec == StoreInit /\ [][StoreNext]_storeVars

\* ============================================================== claims
\* What a step did, read from the observation variables.
EventStep == Len(evtAt') = Len(evtAt) + 1

Finished(result) == done # None /\ done.result = result

Finishes(result) == done' # None /\ done'.result = result

\* The watcher callbacks that came while build n was in flight.
EventsDuring(n) == {i \in DOMAIN evtAt : evtAt[i] = n}

Idle     == ~rebuilding /\ ~needsRebuild
Building == rebuilding /\ ~needsRebuild
BuildingPendingQueued == rebuilding /\ needsRebuild

\* C1: at most one rebuild is executing in every reachable state: no call of
\* rebuild() is past its guard while another has not run to its end.
C1_AtMostOneRebuild == Cardinality(inflight) <= 1

C1_Witness ==
    /\ started = 2
    /\ Cardinality(inflight) = 1
    /\ needsRebuild

\* C2: the N >= 1 watcher callbacks that come while a rebuild is in flight
\* start no build themselves and cause exactly one further rebuild, started
\* in the step that ends the rebuild in flight; a rebuild that saw no
\* callback is followed by none.  Two or three callbacks of which only the
\* first came while idle and the others during build 1 give 2 builds.
C2_Coalescing ==
    [][ /\ (EventStep /\ inflight # {})
            => (started' = started /\ inflight' = inflight)
        /\ (started' # started /\ inflight # {})
            => (done' # None /\ started' = started + 1)
        /\ done' # None
            => IF EventsDuring(done'.id) # {}
               THEN /\ started' = started + 1
                    /\ inflight' = {Suspended(started + 1)}
               ELSE /\ started' = started
                    /\ inflight' = {}
        /\ (evtAt' \in {<<0, 1>>, <<0, 1, 1>>} /\ inflight' = {})
            => started' = 2
      ]_vars

C2_Witness ==
    /\ evtAt = <<0, 1, 1>>
    /\ done # None /\ done.id = 1
    /\ started = 2
    /\ Cardinality(inflight) = 1

C4_TriggerWhileBusy ==
    [][ (EventStep /\ inflight # {})
           => /\ needsRebuild'
              /\ UNCHANGED <<rebuilding, started, inflight, disk, clients,
                             readyState, procVars>>
              /\ wire' = None
              /\ done' = None
      ]_vars

C4_Witness ==
    /\ Len(evtAt) >= 2
    /\ evtAt[Len(evtAt)] = started
    /\ evtAt[Len(evtAt) - 1] = started
    /\ needsRebuild
    /\ Cardinality(inflight) = 1
    /\ done = None

\* C5: the flags are always in Idle, Building or Building+PendingQueued
\* (never needsRebuild without rebuilding); a watcher callback takes Idle to
\* Building and Building to Building+PendingQueued, the end of a rebuild
\* takes Building to Idle and Building+PendingQueued to Building, and no
\* other step changes the flags.
C5_StateMachine ==
    [][ /\ ~(needsRebuild' /\ ~rebuilding')
        /\ EventStep
            => \/ Idle /\ Building'
               \/ Building /\ BuildingPendingQueued'
               \/ BuildingPendingQueued /\ BuildingPendingQueued'
        /\ done' # None
            => \/ Building /\ Idle'
               \/ BuildingPendingQueued /\ Building'
        /\ (~EventStep /\ done' = None)
            => UNCHANGED <<rebuilding, needsRebuild>>
      ]_vars

C5_Witness ==
    /\ done # None
    /\ started = done.id + 1
    /\ Building
    /\ Len(evtAt) = 3

C7_NoBroadcastOnFailure ==
    Finished("failed") => wire = None

C7_Witness ==
    /\ Finished("failed")
    /\ disk[scriptPath] # Absent
    /\ \E c \in clients : readyState[c] = OPEN

\* C8: the flag rebuilding is set only while a call of rebuild() is in
\* flight, and the step that ends a failed attempt leaves the coordinator
\* Idle with no build when needsRebuild was false, and with exactly one new
\* rebuild, needsRebuild cleared, when it was true.
C8_RecoverAfterFailure ==
    [][ /\ rebuilding' => inflight' # {}
        /\ Finishes("failed")
            => IF needsRebuild
               THEN /\ started' = started + 1
                    /\ inflight' = {Suspended(started + 1)}
                    /\ Building'
               ELSE /\ started' = started
                    /\ inflight' = {}
                    /\ Idle'
      ]_vars

C8_Witness ==
    /\ Finished("failed")
    /\ started = done.id + 1
    /\ inflight = {Suspended(started)}
    /\ Building

\* C9: process.exit(1) is called only by a failed loadConfig or build at
\* startup, before the watcher and the two servers exist and before any
\* rebuild; the end of a rebuild attempt, failed or not, broadcast or not,
\* leaves the process running with the watcher open.
C9_OnlyStartupFailuresExit ==
    [][ /\ (exitCode' = 1 /\ exitCode # 1)
            => pc \in {"loadConfig", "initialBuild"}
        /\ exitCode' = 1
            => /\ watcher' = "none" /\ wss' = "none" /\ server' = "none"
               /\ started' = 0
        /\ done' # None
            => /\ pc' = "running"
               /\ exitCode' = -1
               /\ watcher' = "open"
      ]_vars

C9_Witness ==
    /\ Finished("failed")
    /\ pc = "running"
    /\ watcher = "open"
    /\ started = 2
    /\ ~rebuilding

C11_AtMostOnceNoReplay ==
    [][ /\ wire' # None
            => /\ Finishes("ok")
               /\ wire'.to \subseteq clients
               /\ seen = "away" => "c1" \notin wire'.to
        /\ clients' # clients => wire' = None
      ]_watchedVars

C11_Witness ==
    /\ seen = "back"
    /\ wire # None
    /\ "c1" \in wire.to
    /\ wire.code = wire.build


\* ------------------------------------------- the payload, said another way
\* The first place of a piece in a text that has it.
FirstPlace(s, piece) ==
    CHOOSE i \in DOMAIN s :
        /\ s[i] = piece
        /\ \A j \in 1..(i - 1) : s[j] # piece

\* The text after place i, without the whitespace it starts with.
RestAfter(s, i) ==
    LET k == CHOOSE n \in (i + 1)..(Len(s) + 1) :
                 /\ \A j \in (i + 1)..(n - 1) : s[j] \in Whitespace
                 /\ n = Len(s) + 1 \/ s[n] \notin Whitespace
    IN  SubSeq(s, k, Len(s))

\* The text has the runtime's start marker and, at or after the first one,
\* a closing construct.
HasBlock(s) ==
    \E m, e \in DOMAIN s :
        /\ s[m] = hotReloadMarker
        /\ e >= m
        /\ s[e] = hotReloadEndMarker

\* The place of the first closing construct after the first start marker.
BlockEnd(s) ==
    CHOOSE e \in DOMAIN s :
        /\ e >= FirstPlace(s, hotReloadMarker)
        /\ s[e] = hotReloadEndMarker
        /\ \A j \in FirstPlace(s, hotReloadMarker)..(e - 1) :
               s[j] # hotReloadEndMarker

WithoutBlock(s) == IF HasBlock(s) THEN RestAfter(s, BlockEnd(s)) ELSE s

HasHeaderEnd(s) == headerEndMarker \in Range(s)

AfterHeader(s) == RestAfter(s, FirstPlace(s, headerEndMarker))

\* C12: for an artifact that has the header end marker, the reload code is
\* the text after the first such marker with leading whitespace removed and
\* then, when that remainder has the runtime start marker and a closing
\* construct following it, the text after that closing construct with
\* leading whitespace removed; when the closing construct is missing the
\* remainder after the header is the code, unchanged.
C12_PayloadConstruction ==
    (code1 # Unset /\ HasHeaderEnd(artifact))
        => code1 = WithoutBlock(AfterHeader(artifact))
C12_Witness ==
    /\ made # None /\ made.dev
    /\ code1 # Unset /\ code1 # <<>>
    /\ code1 = made.user

\* C13 as stated: with no header end marker in the artifact the whole
\* artifact is the reload code.
C13_WholeArtifactWithoutHeader ==
    (code1 # Unset /\ ~HasHeaderEnd(artifact)) => code1 = artifact
\* C13: with no header end marker in the artifact nothing is removed for
\* the header, not even leading whitespace, and the runtime block is still
\* removed when its markers are there; with neither, the whole artifact is
\* the reload code.
C13_NoHeaderNothingRemovedForIt ==
    (code1 # Unset /\ ~HasHeaderEnd(artifact))
        => code1 = WithoutBlock(artifact)
C13_Witness ==
    /\ code1 # Unset /\ ~HasHeaderEnd(artifact)
    /\ Len(artifact) >= 2 /\ artifact[1] \in Whitespace
    /\ ~HasBlock(artifact)
    /\ code1 = artifact

\* C14: making the reload code from a reload code gives that reload code.
C14_Idempotent ==
    code2 # Unset => code2 = code1

\* C15: the reload code is a function of the artifact text alone; when the
\* artifact has no runtime start marker it is the artifact without its
\* header (the text up to the first header end marker) and the whitespace
\* after it, and the whole artifact when there is no header end marker.
C15_NoRuntimeMarker ==
    (code1 # Unset /\ hotReloadMarker \notin Range(artifact))
        => code1 = IF HasHeaderEnd(artifact) THEN AfterHeader(artifact)
                   ELSE artifact
C15_Witness ==
    /\ code1 # Unset /\ hotReloadMarker \notin Range(artifact)
    /\ HasHeaderEnd(artifact)
    /\ hotReloadEndMarker \in Range(code1)
    /\ Len(code1) < Len(artifact) - 1

\* C16: the reload code made from an artifact that build() wrote in
\* development mode has no client runtime in it, so evaluating it does not
\* open a second connection.
C16_NoRuntimeInReloadCode ==
    (made # None /\ made.dev /\ code1 # Unset)
        => ClientBodies \cap Range(code1) = {}


\* C17 as stated: two broadcasts in a row that read different artifact
\* texts carry different code.
C17_ChangedArtifactDifferentCode ==
    (prevFrom # Unset /\ sentFrom # prevFrom) => code1 # prevCode
\* C17: the code of every broadcast is made from the artifact text that is
\* on disk in the step of that broadcast, never kept from an earlier one;
\* it differs from the code of the broadcast before exactly when the two
\* texts differ after their header and client block are removed.
C17_PayloadFromDisk ==
    [][ (sentFrom' # sentFrom \/ prevFrom' # prevFrom \/ code1' # code1)
            => /\ sentFrom' = artifact
               /\ code1' = reloadCode(artifact)
               /\ sentFrom # Unset
                    => (code1' # code1
                          <=> reloadCode(artifact) # reloadCode(sentFrom))
      ]_stripVars
C17_Witness ==
    /\ prevFrom # Unset /\ sentFrom # prevFrom
    /\ code1 # prevCode
    /\ code1 = reloadCode(sentFrom) /\ prevCode = reloadCode(prevFrom)


ClosesNow(s) ==
    /\ s \in DOMAIN sock /\ sock[s] # "closed"
    /\ s \in DOMAIN sock' /\ sock'[s] = "closed"

\* No socket of the client is connecting, open or closing.
NoLiveSocket == \A s \in DOMAIN sock : sock[s] = "closed"

\* C19: a step in which a socket gets its close event, with or without an
\* error event before it, sets exactly one timer, for connect after 1000
\* ms, clears none and calls connect() not at all; a step in which a timer
\* fires calls connect() exactly once and so makes at most one socket.
C19_OneReconnectPerClose ==
    [][ /\ (\E s \in 1..MaxAttempts : ClosesNow(s))
            => /\ timers \subseteq timers'
               /\ Cardinality(timers' \ timers) = 1
               /\ \A t \in timers' \ timers :
                     t.delay = ReconnectDelay /\ reconnectTimer' = t.id
               /\ timersMade' = timersMade + 1
               /\ connects' = connects
        /\ cstep' = "timer"
            => /\ Cardinality(timers \ timers') = 1
               /\ connects' = connects + 1
               /\ Len(sock') <= Len(sock) + 1
      ]_clientVars
C19_Witness ==
    /\ cstep = "timer"
    /\ connects = 3
    /\ Len(sock) = 3
    /\ sock[1] = "closed" /\ sock[2] = "closed" /\ sock[3] = "connecting"
    /\ timersMade = 2
    /\ ~torn

\* C20: while beforeunload has not run, whenever the latest attempt has
\* come to nothing (the constructor threw, the connection failed, or the
\* open socket closed) connect() is called again, however many attempts
\* failed before, up to the number of attempts followed.
C20_RetriesWithoutBound ==
    \A n \in 1..(MaxAttempts - 1) :
        (page = "alive" /\ ~torn /\ connects = n /\ NoLiveSocket)
            ~> (connects > n \/ torn)
C20_Witness ==
    /\ page = "alive" /\ ~torn
    /\ connects = MaxAttempts
    /\ cstep = "timer"
    /\ Len(sock) < connects
    /\ \A s \in 1..(Len(sock) - 1) : sock[s] = "closed"


\* C21: once the beforeunload listener has run no reconnect timer is
\* pending and connect() is not called again.
C21_NoReconnectAfterTeardown ==
    [][ torn => (timers' = {} /\ connects' = connects) ]_clientVars


\* ----------------------------------------------------- the client's reloads
Count(seq, x) == Cardinality({ i \in DOMAIN seq : seq[i] = x })

Place(seq, x) == CHOOSE i \in DOMAIN seq : seq[i] = x

\* The message handled last is a JSON object of type "reload".
GotReload == got # None /\ got.shape = "object" /\ got.type = "reload"

\* ... and it has code to evaluate.
GotReloadWithCode == GotReload /\ got.code # ""

\* In the handler of the message handled last the cleanup function was
\* called once, the code evaluated once, in that order.
CleanupThenCode ==
    /\ Count(calls, "cleanup") = 1
    /\ Count(calls, "eval") = 1
    /\ Place(calls, "cleanup") < Place(calls, "eval")

\* C22 as stated: every message of type "reload" handled while a cleanup
\* function is registered has the cleanup called once and then the code
\* evaluated.
C22_CleanupBeforeCodeAnyReload ==
    (GotReload /\ cleanupFn # "absent") => CleanupThenCode
\* C22: a message of type "reload" that carries non-empty code, handled
\* while a cleanup function is registered, has the cleanup called exactly
\* once and before the code is evaluated, which is also exactly once; with
\* no cleanup registered only the code is evaluated.  A reload message
\* whose code is absent or empty is ignored: neither is called.
C22_CleanupBeforeCode ==
    /\ (GotReloadWithCode /\ cleanupFn # "absent") => CleanupThenCode
    /\ (GotReloadWithCode /\ cleanupFn = "absent")
          => (Count(calls, "cleanup") = 0 /\ Count(calls, "eval") = 1)
    /\ (GotReload /\ got.code = "") => calls = <<>>
C22_Witness ==
    /\ GotReloadWithCode
    /\ cleanupFn = "returns"
    /\ calls = <<"start", "cleanup", "eval", "done">>

\* C23: when the cleanup function throws while a reload is handled, its
\* error is logged, the code is evaluated all the same and after it, and no
\* exception leaves the handler.
C23_CleanupThrowsReloadProceeds ==
    (GotReloadWithCode /\ cleanupFn = "throws")
        => /\ CleanupThenCode
           /\ Count(calls, "warn") = 1
           /\ Place(calls, "cleanup") < Place(calls, "warn")
           /\ Place(calls, "warn") < Place(calls, "eval")
           /\ ~escaped
C23_Witness ==
    /\ GotReloadWithCode
    /\ cleanupFn = "throws"
    /\ got.code = "runs"
    /\ calls = <<"start", "cleanup", "warn", "eval", "done">>
    /\ ~escaped

\* C24: a step in which the evaluated code throws logs the error and lets
\* no exception out of the handler, leaves every socket as it is and sets
\* or clears no timer and calls connect() not at all; and a reload with
\* code is evaluated also when the code of an earlier message threw.
C24_CodeThrowsChannelStays ==
    [][ cstep' = "message"
          => /\ (got'.type = "reload" /\ got'.code = "throws")
                  => /\ Count(calls', "error") = 1
                     /\ ~escaped'
                     /\ sock' = sock /\ ws' = ws
                     /\ timers' = timers /\ reconnectTimer' = reconnectTimer
                     /\ connects' = connects
             /\ (threwBefore' /\ got'.type = "reload" /\ got'.code # "")
                  => Count(calls', "eval") = 1
      ]_pageVars
C24_Witness ==
    /\ threwBefore
    /\ GotReloadWithCode /\ got.code = "runs"
    /\ Count(calls, "eval") = 1 /\ Count(calls, "done") = 1
    /\ ws # 0 /\ sock[ws] = "open"
    /\ connects = 1 /\ timers = {}

\* C25: a message that is not a JSON object of type "reload" has nothing
\* called for it and lets no exception out of the handler.
C25_OtherMessagesIgnored ==
    (got # None /\ ~GotReload) => (calls = <<>> /\ ~escaped)

\* C27: while the server runs the signal handler can run whatever the
\* coordinator is doing; the step in which it runs closes the watcher, the
\* WebSocket server and the HTTP server and exits with status 0, leaving
\* the calls of rebuild() in flight where they are; and once the watcher is
\* closed no build starts, no artifact is written and nothing is broadcast.
C27_ShutdownInEveryState ==
    [][ /\ pc = "running" => ENABLED Shutdown
        /\ (watcher = "open" /\ watcher' = "closed")
              => /\ wss' = "closed" /\ server' = "closed"
                 /\ pc' = "exited" /\ exitCode' = 0
                 /\ inflight' = inflight
                 /\ rebuilding' = rebuilding /\ needsRebuild' = needsRebuild
        /\ watcher = "closed"
              => /\ started' = started
                 /\ disk' = disk
                 /\ wire' = None
      ]_vars
C27_Witness ==
    /\ pc = "exited" /\ exitCode = 0
    /\ watcher = "closed" /\ wss = "closed" /\ server = "closed"
    /\ BuildingPendingQueued
    /\ inflight # {}


\* --------------------------------------------------------- the endpoint
PlainText(status) ==
    /\ res.status = status
    /\ res.contentType = "text/plain"
    /\ res.cors = ""

C29_ClientsFrame ==
    [][ /\ clients' # clients
            => /\ \E c \in ClientIds :
                     \/ /\ c \notin clients
                        /\ clients' = clients \cup {c}
                        /\ readyState'[c] = OPEN
                     \/ /\ c \in clients
                        /\ clients' = clients \ {c}
                        /\ readyState'[c] = CLOSED
               /\ wire' = None /\ done' = None /\ res' = None
               /\ evtAt' = evtAt /\ started' = started
        /\ wire' # None
            => /\ clients' = clients
               /\ wire'.to = {c \in clients : readyState[c] = OPEN}
      ]_servedVars
C29_Witness ==
    /\ wire # None
    /\ wire.to # {}
    /\ \E c \in clients : readyState[c] = CLOSING /\ c \notin wire.to


\* C28: an artifact holds the client runtime exactly when build() was given
\* dev and a hot-reload port, and then holds it once, with that port;
\* built otherwise it is the header, a line break and the bundled code.
\* The development server's builds, at startup and in every rebuild, are
\* given dev and the port its WebSocket server is made on.
C28_ClientOnlyInDevelopment ==
    made # None
        => /\ (made.dev /\ made.port # 0)
                => /\ ClientBodies \cap Range(artifact)
                        = {hotReloadBody(made.port)}
                   /\ Count(artifact, hotReloadBody(made.port)) = 1
           /\ ~(made.dev /\ made.port # 0)
                => /\ ClientBodies \cap Range(artifact) = {}
                   /\ artifact = generateHeader(made.meta) \o <<"\n">>
                                    \o made.user
           /\ made.by \in {"startup", "rebuild"}
                => /\ devServer # None /\ devServer.listening
                   /\ made.dev
                   /\ made.port = devServer.wsPort
                   /\ hotReloadBody(devServer.wsPort) \in Range(artifact)
C28_Witness ==
    /\ made # None /\ made.by = "rebuild"
    /\ devServer # None /\ devServer.port = 8080 /\ devServer.wsPort = 8081
    /\ hotReloadBody(8081) \in Range(artifact)


\* C30: whenever the coordinator is idle no call of rebuild() is in flight
\* and the latest attempt began no earlier than the latest watcher callback
\* came: its number is greater than that of the attempt in flight when the
\* callback came, and when none was in flight the callback began an attempt
\* itself.  Fewer attempts than callbacks may have been made.
C30_IdleMeansCaughtUp ==
    (Idle /\ evtAt # <<>>)
        => /\ inflight = {}
           /\ started >= 1
           /\ started > evtAt[Len(evtAt)]
C30_Witness ==
    /\ pc = "running"
    /\ Idle
    /\ Len(evtAt) = 3
    /\ started = 2
    /\ evtAt[3] = 1


C33_SendFailureIsolated ==
    [][ (wire' # None /\ threwAt' # "")
           => /\ wire'.to = {c \in clients : readyState[c] = OPEN} \ {threwAt'}
              /\ ~needsRebuild'
              /\ IF needsRebuild
                 THEN /\ rebuilding'
                      /\ started' = started + 1
                      /\ inflight' = {Suspended(started + 1)}
                 ELSE /\ ~rebuilding'
                      /\ started' = started
                      /\ inflight' = {}
      ]_sentVars


\* --------------------------------------------------- the client's channel
\* The sockets of the page that are connecting or open.
Live(sockets) ==
    {s \in DOMAIN sockets : sockets[s] \in {"connecting", "open"}}

\* C34: whatever the order of open, error, close, timer and message events,
\* the client has at most one reconnect timer pending and at most one
\* socket connecting or open, and connect() is called only when no socket
\* is connecting or open.
C34_OneTimerOneChannel ==
    [][ /\ Cardinality(timers') <= 1
        /\ Cardinality(Live(sock')) <= 1
        /\ connects' # connects => Live(sock) = {}
      ]_pageVars

C34_Witness ==
    /\ cstep = "timer"
    /\ connects = 3
    /\ Len(sock) >= 2
    /\ sock[Len(sock)] = "connecting"
    /\ got # None
    /\ timers = {}


\* C35: in a page without the GM storage API, storage.get(key, d) returns
\* the value storage.set was last given for the key, whatever that value
\* is, strings too, and returns d when the key was never set or was
\* deleted since.
C35_StorageRoundTrip ==
    ret # None
        => ret.value = IF written[ret.key] = Nothing THEN ret.default
                       ELSE written[ret.key]

====
